---- MODULE Spec2Model ----
(***************************************************************************)
(* Model of updated_app.py: the BestieAI A/B prompt-preference experiment. *)
(* The program is a Streamlit script: every user interaction (and every    *)
(* st.rerun()) executes main() once from top to bottom against the         *)
(* session state.  One action of the model is one such script run.         *)
(***************************************************************************)
EXTENDS Integers, Sequences, FiniteSets, TLC

---------------------------------------------------------------------------
(* Bounds of the model *)
MaxUuid == 6            \* uuid4 values drawn in one run of the program
MaxHistory == 5         \* turns in the history
MaxTicks == 3           \* clock readings after time 0
TickStep == 61          \* distance of two clock readings
MaxNudgeChoice == 2     \* of the five engagement messages, the first ones
MaxFailures == 1        \* failed get_completion calls in one history
MaxVotes == 3           \* votes of a session of SpecStats and SpecTally

(* Program constants *)
CONTEXT_WINDOW == 5
IdleThreshold == 60
EngagementCooldown == 100

(* Input alphabets *)
Names == {"Ann"}
PreferredNames == {"", "Bee"}
Messages == {"hello"}
Feedbacks == {"nice"}

Techniques == {"conditional", "dynamic_context"}
NoId == 0
NoTime == -1
NoProfile == [name |-> "", preferred_name |-> ""]

VARIABLES
    api_key,                    \* OPENAI_API_KEY is set (client exists)
    user_profile,
    conversation_history,
    conversation_id,
    user_id,
    preferred_technique,        \* the PreferenceLog: response_id -> technique
    onboarding_complete,
    current_message_processed,
    last_interaction_time,
    last_engagement_time,
    input_key,
    user_input,                 \* value held by the text_input widget input_<input_key>
    rerun,                      \* st.rerun() was called: the script runs again at once
    next_uuid,                  \* source of uuid.uuid4() values
    json_files,                 \* conversation_data/conversation_<id>.json
    csv_file,                   \* conversation_data/preferences_summary.csv
    gateway_calls,              \* number of get_completion calls made so far
    last_calls,                 \* the get_completion calls of the session's last accepted message
    last_save,                  \* what the last Save & End computed and got back
    event                       \* the interaction that triggered the last script run

env == <<api_key>>
session == <<user_profile, conversation_history, conversation_id, user_id,
             preferred_technique, onboarding_complete, current_message_processed,
             last_interaction_time, last_engagement_time, input_key>>
files == <<json_files, csv_file>>
gateway == <<gateway_calls, last_calls>>
vars == <<api_key, user_profile,
          conversation_history, conversation_id, user_id, preferred_technique,
          onboarding_complete, current_message_processed, last_interaction_time,
          last_engagement_time, input_key, user_input, rerun, next_uuid,
          json_files, csv_file, gateway_calls, last_calls, last_save, event>>

---------------------------------------------------------------------------
(* IEEE-754 double arithmetic, as far as `count / total * 100` and the sum  *)
(* of two such values need it.  A double is m * 2^e with m a sequence of    *)
(* 53 bits, most significant first; zero has the empty mantissa.  Every     *)
(* operation rounds to nearest, ties to even, as the hardware does.         *)
MantissaBits == 53
FloatZero == [m |-> <<>>, e |-> 0]
ZeroDivisionError == [m |-> <<>>, e |-> 0, raised |-> "ZeroDivisionError"]

Zeros(k) == [i \in 1..k |-> 0]

MaxOf(S) == CHOOSE v \in S : \A w \in S : w <= v

StripZeros(bits) ==
    LET ones == {i \in 1..Len(bits) : bits[i] = 1}
    IN  IF ones = {} THEN <<>>
        ELSE SubSeq(bits, CHOOSE i \in ones : \A j \in ones : i <= j, Len(bits))

IncBits(bits) ==
    LET zs == {i \in 1..Len(bits) : bits[i] = 0}
    IN  IF zs = {} THEN <<1>> \o Zeros(Len(bits))
        ELSE LET j == MaxOf(zs)
             IN  [i \in 1..Len(bits) |-> IF i < j THEN bits[i] ELSE IF i = j THEN 1 ELSE 0]

RoundBits(bits, e) ==
    LET L == Len(bits) IN
    IF L <= MantissaBits
    THEN [m |-> bits \o Zeros(MantissaBits - L), e |-> e - (MantissaBits - L)]
    ELSE LET kept   == SubSeq(bits, 1, MantissaBits)
             guard  == bits[MantissaBits + 1]
             sticky == \E i \in (MantissaBits + 2)..L : bits[i] = 1
             up     == guard = 1 /\ (sticky \/ kept[MantissaBits] = 1)
             r      == IF up THEN IncBits(kept) ELSE kept
             e1     == e + (L - MantissaBits)
         IN  IF Len(r) > MantissaBits
             THEN [m |-> SubSeq(r, 1, MantissaBits), e |-> e1 + 1]
             ELSE [m |-> r, e |-> e1]

RECURSIVE PowMod(_, _)
PowMod(i, n) ==
    IF i = 0 THEN 1 % n
    ELSE LET h == PowMod(i \div 2, n)
         IN  (((h * h) % n) * (IF i % 2 = 1 THEN 2 ELSE 1)) % n

\* remainder of count * 2^i modulo total
FracRem(count, total, i) == (count * PowMod(i, total)) % total

\* i-th binary digit after the point of count / total, for count < total
FracBit(count, total, i) ==
    IF 2 * FracRem(count, total, i - 1) >= total THEN 1 ELSE 0

\* count / total for integers 0 <= count <= total, 0 < total
FloatDiv(count, total) ==
    IF count = 0 THEN FloatZero
    ELSE IF count = total THEN RoundBits(<<1>>, 0)
    ELSE LET z    == (CHOOSE i \in 1..32 : FracBit(count, total, i) = 1
                         /\ \A j \in 1..(i - 1) : FracBit(count, total, j) = 0) - 1
             k    == z + MantissaBits + 1
             bits == [i \in 1..(MantissaBits + 1) |-> FracBit(count, total, z + i)]
             st   == IF FracRem(count, total, k) # 0 THEN <<1>> ELSE <<>>
         IN  RoundBits(bits \o st, -(k + Len(st)))

BitAt(bits, p) == IF p >= 0 /\ p < Len(bits) THEN bits[Len(bits) - p] ELSE 0

CarryInto(a, b, p) ==
    LET same == {q \in 0..(p - 1) : BitAt(a, q) = BitAt(b, q)}
    IN  IF same = {} THEN 0 ELSE BitAt(a, MaxOf(same))

AddBits(a, b) ==
    LET L == (IF Len(a) > Len(b) THEN Len(a) ELSE Len(b)) + 1
    IN  [i \in 1..L |-> (BitAt(a, L - i) + BitAt(b, L - i) + CarryInto(a, b, L - i)) % 2]

\* f * 100, with 100 = 64 + 32 + 4
FloatMul100(f) ==
    IF f.m = <<>> THEN FloatZero
    ELSE RoundBits(StripZeros(AddBits(AddBits(f.m \o Zeros(6), f.m \o Zeros(5)),
                                      f.m \o Zeros(2))), f.e)

FloatAdd(f, g) ==
    IF f.m = <<>> THEN g
    ELSE IF g.m = <<>> THEN f
    ELSE LET e == IF f.e < g.e THEN f.e ELSE g.e
         IN  RoundBits(StripZeros(AddBits(f.m \o Zeros(f.e - e), g.m \o Zeros(g.e - e))), e)

\* the doubles 100.0, and its two neighbours
Float100 == RoundBits(<<1, 1, 0, 0, 1, 0, 0>>, 0)
Float100Below == [m |-> [i \in 1..MantissaBits |-> IF i \in {3, 4, 5} THEN 0 ELSE 1],
                  e |-> Float100.e]
Float100Above == [Float100 EXCEPT !.m[MantissaBits] = 1]

\* count / total * 100 for every tally the model can produce, computed once
TallyRange == 0..(MaxUuid + MaxVotes)
PercentageTable ==
    [count \in TallyRange, total \in TallyRange \ {0} |->
        IF count <= total THEN FloatMul100(FloatDiv(count, total)) ELSE FloatZero]

\* Python's  count / total * 100
Percentage(count, total) ==
    IF total = 0 THEN ZeroDivisionError ELSE PercentageTable[count, total]

---------------------------------------------------------------------------
(* Turns of st.session_state.conversation_history *)
UserTurn(text) == [role |-> "user", content |-> text]

AssistantTurn(text) == [role |-> "assistant", content |-> text]

ExperimentTurn(rid, conditional_response, dynamic_context_response, a_tech, b_tech) ==
    [role |-> "assistant", content |-> "", response_id |-> rid,
     responses |-> [conditional |-> conditional_response,
                    dynamic_context |-> dynamic_context_response],
     option_a_tech |-> a_tech, option_b_tech |-> b_tech]

WelcomeMessage(profile) ==
    "Hi " \o profile.preferred_name \o "! I'm BestieAI, your friendly companion. What's on your mind today?"

EngagementMessages(profile) ==
    << "Hey there! Still with me? I'd love to chat more about what's on your mind.",
       "Hi " \o profile.preferred_name \o "! Anything else you'd like to talk about today?",
       "I'm here if you want to continue our conversation. What else is on your mind?",
       "Just checking in! Is there anything else you'd like to discuss, " \o profile.preferred_name \o "?",
       "Taking a break? I'm here whenever you're ready to chat again!" >>

\* the list left unshuffled
Shuffles_Unshuffled == { <<"conditional", "dynamic_context">> }

\* the two orders random.shuffle can leave ["conditional", "dynamic_context"] in
Shuffles == { <<"conditional", "dynamic_context">>, <<"dynamic_context", "conditional">> }

\* lines 549-552: the text drawn under "Option A:" and under "Option B:"
OptionText(message, label) ==
    message.responses[IF label = "A" THEN message.option_a_tech
                      ELSE message.option_b_tech]

\* a turn that still shows its two options: it carries a response identifier
\* that has no entry in the PreferenceLog
IsPending(message, log) ==
    /\ message.role = "assistant"
    /\ "responses" \in DOMAIN message
    /\ message.response_id \notin DOMAIN log

PendingTurns(history, log) == {i \in DOMAIN history : IsPending(history[i], log)}

---------------------------------------------------------------------------
(* Prompt Builder and Completion Gateway *)
RoleLabel(message) == IF message.role = "user" THEN "User" ELSE "BestieAI"

RECURSIVE JoinLines(_)
JoinLines(lines) ==
    IF lines = <<>> THEN ""
    ELSE IF Len(lines) = 1 THEN lines[1]
    ELSE lines[1] \o "\n" \o JoinLines(Tail(lines))

get_conversation_context(history) ==
    LET first  == IF Len(history) > CONTEXT_WINDOW THEN Len(history) - CONTEXT_WINDOW + 1 ELSE 1
        window == SubSeq(history, first, Len(history))
    IN  JoinLines([i \in DOMAIN window |-> RoleLabel(window[i]) \o ": " \o window[i].content])

generate_conditional_response_prompt(profile, conversation_context) ==
    [template |-> "conditional", preferred_name |-> profile.preferred_name,
     context |-> conversation_context]

generate_dynamic_context_prompt(profile, conversation_context) ==
    [template |-> "dynamic_context", name |-> profile.name,
     preferred_name |-> profile.preferred_name, context |-> conversation_context]

ApiOutcomes == {"ok", "fail"}
ConfigErrorText == "Error: OpenAI API key not found. Please set OPENAI_API_KEY in your environment variables."
GatewayErrorText == "Error: Connection error."
ReplyText(system_prompt, user_message) ==
    "(" \o system_prompt.template \o ") reply to: " \o user_message

\* get_completion returning an empty text when the request fails
get_completion_NoErrorText(client, system_prompt, user_message, outcome) ==
    IF ~client THEN ConfigErrorText
    ELSE IF outcome = "ok" THEN ReplyText(system_prompt, user_message)
    ELSE ""

\* outcome is what the API does with the request, when a request is made
get_completion(client, system_prompt, user_message, outcome) ==
    IF ~client THEN ConfigErrorText
    ELSE IF outcome = "ok" THEN ReplyText(system_prompt, user_message)
    ELSE GatewayErrorText

---------------------------------------------------------------------------
(* Statistics Aggregator, as the Save & End handler computes it *)
TechniqueOrder == <<"conditional", "dynamic_context">>
None == "None"

\* technique_counts = {"conditional": 0, "dynamic_context": 0}, then one
\* increment per PreferenceLog value that is a key of the dictionary
technique_counts(log) ==
    [t \in Techniques |-> Cardinality({r \in DOMAIN log : log[r] = t})]

\* the last key of maximal value instead of the first
MaxByValue_LastKey(d) ==
    LET i == CHOOSE i \in DOMAIN TechniqueOrder :
                 /\ \A j \in DOMAIN TechniqueOrder : d[TechniqueOrder[j]] <= d[TechniqueOrder[i]]
                 /\ \A j \in (i + 1)..Len(TechniqueOrder) : d[TechniqueOrder[j]] < d[TechniqueOrder[i]]
    IN  TechniqueOrder[i]

\* max(d, key=d.get): the first key, in the dictionary's order, of maximal value
MaxByValue(d) ==
    LET i == CHOOSE i \in DOMAIN TechniqueOrder :
                 /\ \A j \in DOMAIN TechniqueOrder : d[TechniqueOrder[j]] <= d[TechniqueOrder[i]]
                 /\ \A j \in 1..(i - 1) : d[TechniqueOrder[j]] < d[TechniqueOrder[i]]
    IN  TechniqueOrder[i]

\* max(technique_counts, key=technique_counts.get) if technique_counts else None
PreferredTechnique(counts) ==
    IF DOMAIN counts # {} THEN MaxByValue(counts) ELSE None

SumValues(counts) == counts["conditional"] + counts["dynamic_context"]

\* the percentage without its test of total_votes
SummaryPercent_Unguarded(count, total_votes) == Percentage(count, total_votes)

\* (count / total_votes * 100) if total_votes > 0 else 0
SummaryPercent(count, total_votes) ==
    IF total_votes > 0 THEN Percentage(count, total_votes) ELSE FloatZero

---------------------------------------------------------------------------
(* Session Store: save_conversation and send_email *)
NoFile == 0
DictGet(d, key, default) == IF key \in DOMAIN d THEN d[key] ELSE default

\* the turns save_conversation counts: assistant turns whose response_id is
\* a key of st.session_state.preferred_technique
RatedTurns(history, log) ==
    {i \in DOMAIN history :
        /\ history[i].role = "assistant"
        /\ "response_id" \in DOMAIN history[i]
        /\ history[i].response_id \in DOMAIN log}

\* the rated turns counted under the strategy shown as Option A
preferred_techniques_count_OptionA(history, log) ==
    LET rated == RatedTurns(history, log)
        seen  == {history[i].option_a_tech : i \in rated}
    IN  [t \in seen |-> Cardinality({i \in rated : history[i].option_a_tech = t})]

\* lines 163-173: preferred_techniques_count, a key per strategy met
preferred_techniques_count(history, log) ==
    LET rated == RatedTurns(history, log)
        seen  == {log[history[i].response_id] : i \in rated}
    IN  [t \in seen |-> Cardinality({i \in rated : log[history[i].response_id] = t})]

technique_percentages(counts, total_responses) ==
    [t \in DOMAIN counts |->
        IF total_responses > 0 THEN Percentage(counts[t], total_responses) ELSE FloatZero]

\* email_credentials: EMAIL_USERNAME and EMAIL_PASSWORD are set;
\* smtp_ok: the SMTP session (connect, starttls, login, send) goes through
send_email(email_credentials, smtp_ok) ==
    IF ~email_credentials THEN FALSE ELSE smtp_ok

\* lines 175-186: the document json.dump writes (the history by its length)
conversation_data(cid, uid, history, preferred, feedback) ==
    LET total_responses == Cardinality(RatedTurns(history, preferred_technique))
    IN  [conversation_id |-> cid, user_id |-> uid,
         conversation_length |-> Len(history),
         preferred_technique |-> preferred,
         technique_percentages |->
             technique_percentages(
                 preferred_techniques_count(history, preferred_technique), total_responses),
         user_profile |-> user_profile,
         total_responses |-> total_responses,
         detailed_preferences |-> preferred_technique,
         feedback |-> feedback]

\* lines 196-208: the row appended to all_conversations.csv
new_row(data) ==
    [conversation_id |-> data.conversation_id, user_id |-> data.user_id,
     preferred_technique |-> data.preferred_technique,
     conditional_percentage |->
         DictGet(data.technique_percentages, "conditional", FloatZero),
     dynamic_context_percentage |->
         DictGet(data.technique_percentages, "dynamic_context", FloatZero),
     conversation_length |-> data.conversation_length,
     total_responses |-> data.total_responses,
     user_name |-> data.user_profile.name,
     feedback |-> data.feedback]

\* lines 190-191: conversation_<cid>.json is written
WriteJson(data) ==
    [c \in DOMAIN json_files \cup {data.conversation_id} |->
        IF c = data.conversation_id THEN data ELSE json_files[c]]

\* lines 192-194 and 216-218: st.error(...) and return None
SaveFailed(error, json) ==
    [result |-> [kind |-> "None"], json_files |-> json, csv_file |-> csv_file,
     email |-> "not attempted", error |-> error]

\* the email report sent without looking for ADMIN_EMAIL
SaveDone_NoAdminCheck(cid, json, csv, send_email_report, io) ==
    IF send_email_report
    THEN LET email_sent == send_email(io.email_credentials, io.smtp_ok)
         IN  [result |-> [kind |-> "tuple", filename |-> cid, email_sent |-> email_sent],
              json_files |-> json, csv_file |-> csv,
              email |-> IF email_sent THEN "sent" ELSE "failed",
              error |-> IF email_sent THEN ""
                        ELSE IF ~io.email_credentials THEN "Email credentials not found"
                        ELSE "Failed to send email"]
    ELSE [result |-> [kind |-> "str", filename |-> cid],
          json_files |-> json, csv_file |-> csv,
          email |-> "not attempted", error |-> ""]

\* lines 221-298: the email report and the value returned after both writes
SaveDone(cid, json, csv, send_email_report, io) ==
    IF send_email_report /\ io.admin_email
    THEN LET email_sent == send_email(io.email_credentials, io.smtp_ok)
         IN  [result |-> [kind |-> "tuple", filename |-> cid, email_sent |-> email_sent],
              json_files |-> json, csv_file |-> csv,
              email |-> IF email_sent THEN "sent" ELSE "failed",
              error |-> IF email_sent THEN ""
                        ELSE IF ~io.email_credentials THEN "Email credentials not found"
                        ELSE "Failed to send email"]
    ELSE [result |-> [kind |-> "str", filename |-> cid],
          json_files |-> json, csv_file |-> csv,
          email |-> "not attempted", error |-> ""]

\* save_conversation going on after a failed CSV write
save_conversation_CsvFailureIgnored(cid, uid, history, preferred, feedback, send_email_report, io) ==
    LET data == conversation_data(cid, uid, history, preferred, feedback)
    IN  IF ~io.json_ok THEN SaveFailed("Failed to save JSON file", json_files)
        ELSE SaveDone(cid, WriteJson(data),
                      IF io.csv_ok THEN Append(csv_file, new_row(data)) ELSE csv_file,
                      send_email_report, io)

\* What save_conversation returns and leaves on disk.  io is what the call
\* meets outside the program: admin_email (ADMIN_EMAIL is set),
\* email_credentials, json_ok and csv_ok (the two writes go through), smtp_ok.
save_conversation(cid, uid, history, preferred, feedback, send_email_report, io) ==
    LET data == conversation_data(cid, uid, history, preferred, feedback)
    IN  IF ~io.json_ok THEN SaveFailed("Failed to save JSON file", json_files)
        ELSE IF ~io.csv_ok THEN SaveFailed("Failed to save CSV file", WriteJson(data))
        ELSE SaveDone(cid, WriteJson(data), Append(csv_file, new_row(data)),
                      send_email_report, io)

---------------------------------------------------------------------------
(* The session state after the first script run (lines 405-422) *)
NoSave == [conversation_id |-> NoId]
NoEvent == [type |-> "start"]

Init ==
    /\ api_key \in BOOLEAN
    /\ user_profile = NoProfile
    /\ conversation_history = <<>>
    /\ conversation_id = 1
    /\ user_id = 2
    /\ preferred_technique = <<>>
    /\ onboarding_complete = FALSE
    /\ current_message_processed = FALSE
    /\ last_interaction_time = 0
    /\ last_engagement_time = NoTime
    /\ input_key = 0
    /\ user_input = ""
    /\ rerun = FALSE
    /\ next_uuid = 3
    /\ json_files = <<>>
    /\ csv_file = <<>>
    /\ gateway_calls = 0
    /\ last_calls = <<>>
    /\ last_save = NoSave
    /\ event = NoEvent

\* The clock readings time.time() a script run can see.  Time never runs
\* backwards, and last_interaction_time is the latest reading the session
\* has kept.
Times == {k * TickStep : k \in 0..MaxTicks}
ClockReadings == {t \in Times : t >= last_interaction_time}

\* The model draws at most MaxUuid identifiers.  A session is started, and
\* a message accepted, only while two are left for the session's Save & End.
UuidsLeft(n) == next_uuid + n - 1 <= MaxUuid

\* the form and the buttons drawn even without the API key
CanInteract_NoKeyCheck == ~rerun

\* main() returns at once without the API key; a button or the form can be
\* used only when no st.rerun() is outstanding
CanInteract == api_key /\ ~rerun

\* lines 445-451: the welcome turn opens an empty history
WithWelcome(history) ==
    IF history = <<>> THEN <<AssistantTurn(WelcomeMessage(user_profile))>> ELSE history

\* a message accepted whatever the gate says
InputAccepted_NoGate(input) == input # ""

\* line 584
InputAccepted(input) == input # "" /\ ~current_message_processed

\* a nudge sent whenever the idle threshold is passed
NudgeDue_NoCooldown(current_time) ==
    current_time - last_interaction_time > IdleThreshold

\* lines 619-621, current_time being the clock reading of this run
NudgeDue(current_time) ==
    /\ current_time - last_interaction_time > IdleThreshold
    /\ \/ last_engagement_time = NoTime
       \/ current_time - last_engagement_time > EngagementCooldown

\* which way a run takes through lines 584-637: the message is accepted and
\* the idle check skipped, or the idle check finds the user active (line
\* 620 false), cooling down (line 621 false) or due a nudge
IdleOutcome(input, current_time) ==
    IF InputAccepted(input) THEN "skipped"
    ELSE IF ~(current_time - last_interaction_time > IdleThreshold) THEN "active"
    ELSE IF NudgeDue(current_time) THEN "nudge"
    ELSE "cooling"

\* the get_completion results in the history that are an error text
FailedCalls(history) ==
    LET failed(i) == IF "responses" \in DOMAIN history[i]
                     THEN {t \in Techniques : history[i].responses[t] = GatewayErrorText}
                     ELSE {}
    IN  Cardinality({<<i, t>> \in (DOMAIN history) \X Techniques : t \in failed(i)})

\* a failed conditional call made once more
CompletionCalls_Retry(conditional_prompt, dynamic_context_prompt, input, conditional_outcome, dynamic_outcome, response_id) ==
    LET conditional_call ==
            [system_prompt |-> conditional_prompt, user_message |-> input,
             outcome |-> conditional_outcome, response_id |-> response_id]
        dynamic_call ==
            [system_prompt |-> dynamic_context_prompt, user_message |-> input,
             outcome |-> dynamic_outcome, response_id |-> response_id]
    IN  IF conditional_outcome = "fail"
        THEN << conditional_call, conditional_call, dynamic_call >>
        ELSE << conditional_call, dynamic_call >>

\* lines 594-597: the get_completion calls of one accepted message, in order
CompletionCalls(conditional_prompt, dynamic_context_prompt, input, conditional_outcome, dynamic_outcome, response_id) ==
    << [system_prompt |-> conditional_prompt, user_message |-> input,
        outcome |-> conditional_outcome, response_id |-> response_id],
       [system_prompt |-> dynamic_context_prompt, user_message |-> input,
        outcome |-> dynamic_outcome, response_id |-> response_id] >>

\* lines 585-618: the message is accepted and its experiment turn created
ProcessMessage(history, input, current_time) ==
    /\ UuidsLeft(3)
    /\ Len(history) + 2 <= MaxHistory
    /\ \E conditional_outcome \in ApiOutcomes, dynamic_outcome \in ApiOutcomes,
          techniques \in Shuffles :
        LET with_user == Append(history, UserTurn(input))
            conversation_context == get_conversation_context(with_user)
            response_id == next_uuid
            conditional_prompt ==
                generate_conditional_response_prompt(user_profile, conversation_context)
            conditional_response ==
                get_completion(api_key, conditional_prompt, input, conditional_outcome)
            dynamic_context_prompt ==
                generate_dynamic_context_prompt(user_profile, conversation_context)
            dynamic_context_response ==
                get_completion(api_key, dynamic_context_prompt, input, dynamic_outcome)
        IN  /\ conversation_history' =
                Append(with_user, ExperimentTurn(response_id, conditional_response,
                                                 dynamic_context_response,
                                                 techniques[1], techniques[2]))
            /\ last_calls' = CompletionCalls(conditional_prompt, dynamic_context_prompt,
                                             input, conditional_outcome, dynamic_outcome,
                                             response_id)
            /\ gateway_calls' = gateway_calls + Len(last_calls')
    /\ FailedCalls(conversation_history') <= MaxFailures
    /\ last_interaction_time' = current_time
    /\ next_uuid' = next_uuid + 1
    /\ current_message_processed' = TRUE
    /\ input_key' = input_key + 1
    /\ user_input' = ""
    /\ rerun' = TRUE
    /\ UNCHANGED last_engagement_time

\* a nudge that opens the input gate again
IdleCheck_OpensGate(history, input, current_time) ==
    /\ IF NudgeDue(current_time)
       THEN /\ Len(history) < MaxHistory
            /\ \E k \in 1..MaxNudgeChoice :
                 conversation_history' =
                     Append(history, AssistantTurn(EngagementMessages(user_profile)[k]))
            /\ last_engagement_time' = current_time
            /\ last_interaction_time' = current_time
            /\ current_message_processed' = FALSE
            /\ rerun' = TRUE
       ELSE /\ conversation_history' = history
            /\ rerun' = FALSE
            /\ UNCHANGED <<last_engagement_time, last_interaction_time,
                           current_message_processed>>
    /\ user_input' = input
    /\ UNCHANGED <<next_uuid, input_key, gateway>>

\* lines 619-637: the idle nudge, checked at the end of a run that accepted
\* no message
IdleCheck(history, input, current_time) ==
    /\ IF NudgeDue(current_time)
       THEN /\ Len(history) < MaxHistory
            /\ \E k \in 1..MaxNudgeChoice :
                 conversation_history' =
                     Append(history, AssistantTurn(EngagementMessages(user_profile)[k]))
            /\ last_engagement_time' = current_time
            /\ last_interaction_time' = current_time
            /\ rerun' = TRUE
       ELSE /\ conversation_history' = history
            /\ rerun' = FALSE
            /\ UNCHANGED <<last_engagement_time, last_interaction_time>>
    /\ user_input' = input
    /\ UNCHANGED <<next_uuid, current_message_processed, input_key, gateway>>

\* lines 583-637, with the value the text_input widget returns
ChatInput(history, input, current_time) ==
    IF InputAccepted(input) THEN ProcessMessage(history, input, current_time)
    ELSE IdleCheck(history, input, current_time)

---------------------------------------------------------------------------
(* The script runs, one per interaction *)
Inputs == Messages \cup {""}
Labels == {"A", "B"}

\* lines 433-442: the onboarding form is submitted with a name
SubmitOnboarding(name, preferred_name) ==
    /\ CanInteract
    /\ ~onboarding_complete
    /\ user_profile' = [name |-> name,
                        preferred_name |-> IF preferred_name # "" THEN preferred_name ELSE name]
    /\ onboarding_complete' = TRUE
    /\ rerun' = TRUE
    /\ event' = [type |-> "onboarding", name |-> name, preferred_name |-> preferred_name]
    /\ UNCHANGED <<env, conversation_history, conversation_id, user_id,
                   preferred_technique, current_message_processed,
                   last_interaction_time, last_engagement_time, input_key,
                   user_input, next_uuid, files, gateway, last_save>>

\* an Update Profile button that also clears the conversation
UpdateProfile_Reset ==
    /\ CanInteract
    /\ onboarding_complete
    /\ onboarding_complete' = FALSE
    /\ conversation_history' = <<>>
    /\ preferred_technique' = <<>>
    /\ current_message_processed' = FALSE
    /\ rerun' = TRUE
    /\ event' = [type |-> "update_profile"]
    /\ UNCHANGED <<env, user_profile, conversation_id, user_id,
                   last_interaction_time, last_engagement_time, input_key,
                   user_input, next_uuid, files, gateway, last_save>>

\* lines 460-462: the Update Profile button
UpdateProfile ==
    /\ CanInteract
    /\ onboarding_complete
    /\ onboarding_complete' = FALSE
    /\ rerun' = TRUE
    /\ event' = [type |-> "update_profile"]
    /\ UNCHANGED <<env, user_profile, conversation_history, conversation_id, user_id,
                   preferred_technique, current_message_processed,
                   last_interaction_time, last_engagement_time, input_key,
                   user_input, next_uuid, files, gateway, last_save>>

\* a reset that leaves the PreferenceLog as it is
ResetSession_KeepLog(current_time) ==
    /\ user_profile' = NoProfile
    /\ conversation_history' = <<>>
    /\ conversation_id' = next_uuid
    /\ user_id' = next_uuid + 1
    /\ next_uuid' = next_uuid + 2
    /\ UNCHANGED preferred_technique
    /\ onboarding_complete' = FALSE
    /\ current_message_processed' = FALSE
    /\ last_interaction_time' = current_time
    /\ input_key' = 0
    /\ rerun' = TRUE
    /\ last_calls' = <<>>

\* a reset that keeps the two identifiers
ResetSession_SameIds(current_time) ==
    /\ user_profile' = NoProfile
    /\ conversation_history' = <<>>
    /\ UNCHANGED <<conversation_id, user_id, next_uuid>>
    /\ preferred_technique' = <<>>
    /\ onboarding_complete' = FALSE
    /\ current_message_processed' = FALSE
    /\ last_interaction_time' = current_time
    /\ input_key' = 0
    /\ rerun' = TRUE
    /\ last_calls' = <<>>

\* lines 525-535: the reset that ends the Save & End handler
ResetSession(current_time) ==
    /\ user_profile' = NoProfile
    /\ conversation_history' = <<>>
    /\ conversation_id' = next_uuid
    /\ user_id' = next_uuid + 1
    /\ next_uuid' = next_uuid + 2
    /\ preferred_technique' = <<>>
    /\ onboarding_complete' = FALSE
    /\ current_message_processed' = FALSE
    /\ last_interaction_time' = current_time
    /\ input_key' = 0
    /\ rerun' = TRUE
    /\ last_calls' = <<>>

\* What a Save & End can meet outside the program.  A flag the code never
\* comes to look at is left FALSE.
SaveOutcomes ==
    {io \in [admin_email : BOOLEAN, email_credentials : BOOLEAN,
             json_ok : BOOLEAN, csv_ok : BOOLEAN, smtp_ok : BOOLEAN] :
        /\ io.csv_ok => io.json_ok
        /\ io.admin_email => io.csv_ok
        /\ io.email_credentials => io.admin_email
        /\ io.smtp_ok => io.email_credentials}

\* lines 479-535: the Save & End Conversation button
SaveAndEnd(feedback, io, current_time) ==
    /\ CanInteract
    /\ onboarding_complete
    /\ LET counts    == technique_counts(preferred_technique)
           preferred == PreferredTechnique(counts)
           saved     == save_conversation(conversation_id, user_id, conversation_history,
                                          preferred, feedback, TRUE, io)
           filename   == IF saved.result.kind = "None" THEN NoFile ELSE saved.result.filename
           email_sent == IF saved.result.kind = "tuple" THEN saved.result.email_sent ELSE FALSE
           total_votes == SumValues(counts)
       IN  /\ json_files' = saved.json_files
           /\ csv_file' = saved.csv_file
           /\ last_save' =
                [conversation_id |-> conversation_id, user_id |-> user_id,
                 votes |-> Cardinality(DOMAIN preferred_technique),
                 preferred_technique |-> preferred,
                 result |-> saved.result, filename |-> filename,
                 email_sent |-> email_sent, email |-> saved.email,
                 error |-> saved.error,
                 io |-> io,
                 summary |-> IF filename # NoFile
                             THEN [shown |-> TRUE, total_votes |-> total_votes,
                                   counts |-> counts,
                                   conditional_percent |->
                                       SummaryPercent(counts["conditional"], total_votes),
                                   dynamic_percent |->
                                       SummaryPercent(counts["dynamic_context"], total_votes)]
                             ELSE [shown |-> FALSE]]
    /\ ResetSession(current_time)
    /\ event' = [type |-> "save_and_end"]
    /\ UNCHANGED <<env, last_engagement_time, user_input, gateway_calls>>

\* buttons drawn for a turn that has its vote already
ButtonsShown_AfterVote(message, log) ==
    message.role = "assistant" /\ "responses" \in DOMAIN message

\* lines 547-560: the two Prefer buttons are drawn for a turn with responses
\* whose response_id has no PreferenceLog entry
ButtonsShown(message, log) ==
    /\ message.role = "assistant"
    /\ "responses" \in DOMAIN message
    /\ message.response_id \notin DOMAIN log

\* both buttons recording Option A's strategy
ChosenTechnique_AlwaysA(message, label) == message.option_a_tech

\* lines 566 and 575
ChosenTechnique(message, label) ==
    IF label = "A" THEN message.option_a_tech ELSE message.option_b_tech

\* st.session_state.preferred_technique[response_id] = technique
SetItem(log, response_id, technique) ==
    [r \in DOMAIN log \cup {response_id} |->
        IF r = response_id THEN technique ELSE log[r]]

\* lines 565-579: a Prefer A / Prefer B button of turn i
Vote(i, label) ==
    /\ CanInteract
    /\ onboarding_complete
    /\ i \in DOMAIN conversation_history
    /\ ButtonsShown(conversation_history[i], preferred_technique)
    /\ LET message   == conversation_history[i]
           technique == ChosenTechnique(message, label)
       IN  /\ preferred_technique' =
                SetItem(preferred_technique, message.response_id, technique)
           /\ conversation_history' =
                [conversation_history EXCEPT ![i].content = message.responses[technique]]
    /\ current_message_processed' = FALSE
    /\ rerun' = TRUE
    /\ event' = [type |-> "vote", label |-> label, turn |-> i]
    /\ UNCHANGED <<env, user_profile, conversation_id, user_id, onboarding_complete,
                   last_interaction_time, last_engagement_time, input_key,
                   user_input, next_uuid, files, gateway, last_save>>

\* line 583: the user enters text in the message box (or empties it)
TypeMessage(text, current_time) ==
    /\ CanInteract
    /\ onboarding_complete
    /\ conversation_history # <<>>
    /\ text # user_input
    /\ ChatInput(conversation_history, text, current_time)
    /\ event' = [type |-> "input", text |-> text,
                 idle |-> IdleOutcome(text, current_time)]
    /\ UNCHANGED <<env, user_profile, conversation_id, user_id, preferred_technique,
                   onboarding_complete, files, last_save>>

\* A script run in which no button is pressed and no text entered: the run
\* that st.rerun() starts, or one started by a widget that changes no state
\* (the feedback box, an expander).  Without onboarding the chat is not
\* drawn, and the message box loses its value.
RenderPass(current_time) ==
    /\ api_key
    /\ IF onboarding_complete
       THEN ChatInput(WithWelcome(conversation_history), user_input, current_time)
       ELSE /\ user_input' = ""
            /\ rerun' = FALSE
            /\ UNCHANGED <<conversation_history, last_interaction_time,
                           last_engagement_time, next_uuid,
                           current_message_processed, input_key, gateway>>
    /\ event' = [type |-> "render",
                 idle |-> IF onboarding_complete
                          THEN IdleOutcome(user_input, current_time) ELSE "skipped"]
    /\ UNCHANGED <<env, user_profile, conversation_id, user_id, preferred_technique,
                   onboarding_complete, files, last_save>>

\* lines 362-370: a script run without the API key shows the setup
\* instructions and returns
NoKeyRun ==
    /\ ~api_key
    /\ event' = [type |-> "no_api_key"]
    /\ UNCHANGED <<env, session, user_input, rerun, next_uuid, files, gateway, last_save>>

Next ==
    \/ NoKeyRun
    \/ \E name \in Names, preferred_name \in PreferredNames :
           UuidsLeft(2) /\ SubmitOnboarding(name, preferred_name)
    \/ UpdateProfile
    \/ \E feedback \in Feedbacks, io \in SaveOutcomes, current_time \in ClockReadings :
           UuidsLeft(2) /\ SaveAndEnd(feedback, io, current_time)
    \/ \E i \in DOMAIN conversation_history, label \in Labels : Vote(i, label)
    \/ \E text \in Inputs, current_time \in ClockReadings : TypeMessage(text, current_time)
    \/ \E current_time \in ClockReadings : RenderPass(current_time)

Spec == Init /\ [][Next]_vars

---------------------------------------------------------------------------
(* SpecStats: Save & End applied to sessions with up to MaxVotes resolved   *)
(* turns.  A session is drawn as the program leaves it after that many      *)
(* messages, each answered by both strategies and voted on at once.         *)
StatsProfile == [name |-> "Ann", preferred_name |-> "Ann"]
StatsMessage == "hello"
StatsVotes == UNION {[1..k -> Techniques] : k \in 0..MaxVotes}

Front(seq) == SubSeq(seq, 1, Len(seq) - 1)

RECURSIVE StatsHistory(_)
StatsHistory(votes) ==
    IF votes = <<>> THEN <<AssistantTurn(WelcomeMessage(StatsProfile))>>
    ELSE LET with_user == Append(StatsHistory(Front(votes)), UserTurn(StatsMessage))
             context   == get_conversation_context(with_user)
             turn == ExperimentTurn(
                        Len(votes) + 2,
                        get_completion(TRUE,
                            generate_conditional_response_prompt(StatsProfile, context),
                            StatsMessage, "ok"),
                        get_completion(TRUE,
                            generate_dynamic_context_prompt(StatsProfile, context),
                            StatsMessage, "ok"),
                        "conditional", "dynamic_context")
         IN  Append(with_user, [turn EXCEPT !.content = turn.responses[votes[Len(votes)]]])

StatsCalls(votes) ==
    IF votes = <<>> THEN <<>>
    ELSE LET with_user == Append(StatsHistory(Front(votes)), UserTurn(StatsMessage))
             context   == get_conversation_context(with_user)
         IN  << [system_prompt |-> generate_conditional_response_prompt(StatsProfile, context),
                 user_message |-> StatsMessage, outcome |-> "ok",
                 response_id |-> Len(votes) + 2],
                [system_prompt |-> generate_dynamic_context_prompt(StatsProfile, context),
                 user_message |-> StatsMessage, outcome |-> "ok",
                 response_id |-> Len(votes) + 2] >>

InitStats ==
    \E votes \in StatsVotes :
        /\ api_key = TRUE
        /\ user_profile = StatsProfile
        /\ conversation_history = StatsHistory(votes)
        /\ conversation_id = 1
        /\ user_id = 2
        /\ preferred_technique = [r \in 3..(Len(votes) + 2) |-> votes[r - 2]]
        /\ onboarding_complete = TRUE
        /\ current_message_processed = FALSE
        /\ last_interaction_time = 0
        /\ last_engagement_time = NoTime
        /\ input_key = Len(votes)
        /\ user_input = ""
        /\ rerun = FALSE
        /\ next_uuid = Len(votes) + 3
        /\ json_files = <<>>
        /\ csv_file = <<>>
        /\ gateway_calls = 2 * Len(votes)
        /\ last_calls = StatsCalls(votes)
        /\ last_save = NoSave
        /\ event = [type |-> "render", idle |-> "active"]

NextStats ==
    \/ \E feedback \in Feedbacks, io \in SaveOutcomes, current_time \in ClockReadings :
           SaveAndEnd(feedback, io, current_time)
    \/ \E current_time \in ClockReadings : RenderPass(current_time)

SpecStats == InitStats /\ [][NextStats]_vars

---------------------------------------------------------------------------
(* SpecTally: the tally of the Save & End handler applied to any           *)
(* PreferenceLog of up to MaxVotes entries, a value of the log being one   *)
(* of the two strategies or some other string.                             *)
TallyValues == Techniques \cup {"other"}
TallyLogs == UNION {[ids -> TallyValues] : ids \in SUBSET (3..(MaxVotes + 2))}

InitTally ==
    /\ api_key = TRUE
    /\ user_profile = StatsProfile
    /\ conversation_history = <<>>
    /\ conversation_id = 1
    /\ user_id = 2
    /\ preferred_technique \in TallyLogs
    /\ onboarding_complete = TRUE
    /\ current_message_processed = FALSE
    /\ last_interaction_time = 0
    /\ last_engagement_time = NoTime
    /\ input_key = 0
    /\ user_input = ""
    /\ rerun = FALSE
    /\ next_uuid = MaxVotes + 3
    /\ json_files = <<>>
    /\ csv_file = <<>>
    /\ gateway_calls = 0
    /\ last_calls = <<>>
    /\ last_save = NoSave
    /\ event = NoEvent

\* lines 480-484 alone
TallyVotes ==
    /\ last_save = NoSave
    /\ LET counts == technique_counts(preferred_technique)
       IN  last_save' = [conversation_id |-> conversation_id,
                         votes |-> Cardinality(DOMAIN preferred_technique),
                         counts |-> counts,
                         preferred_technique |-> PreferredTechnique(counts)]
    /\ event' = [type |-> "tally"]
    /\ UNCHANGED <<env, session, user_input, rerun, next_uuid, files, gateway>>

NextTally == TallyVotes

SpecTally == InitTally /\ [][NextTally]_vars

---------------------------------------------------------------------------
(* The claims *)
UserTurns(history) == {i \in DOMAIN history : history[i].role = "user"}
Pending == PendingTurns(conversation_history, preferred_technique)

\* C1: the history never holds more than one Pending turn, and a script run
\* started by text entered while a turn is Pending appends no user turn and
\* leaves exactly the one Pending turn.
C1_SinglePending ==
    /\ [](Cardinality(Pending) <= 1)
    /\ [][(Pending # {} /\ event'.type = "input")
            => /\ Cardinality(UserTurns(conversation_history'))
                    = Cardinality(UserTurns(conversation_history))
               /\ Pending' = Pending]_vars

\* a message was entered while a turn was Pending: it is still in the box
C1_Witness ==
    /\ Pending # {}
    /\ event.type = "input"
    /\ event.text # ""
    /\ user_input = event.text

\* C2: a vote on a Pending turn adds to the PreferenceLog the entry
\* response identifier -> strategy of the chosen label, sets the turn's
\* content to that strategy's candidate text and keeps both candidates.
C2_VoteEffect ==
    [][event'.type = "vote" =>
        LET i       == event'.turn
            message == conversation_history[i]
            chosen  == IF event'.label = "A" THEN message.option_a_tech
                       ELSE message.option_b_tech
        IN  /\ i \in Pending
            /\ DOMAIN preferred_technique' =
                   DOMAIN preferred_technique \cup {message.response_id}
            /\ preferred_technique'[message.response_id] = chosen
            /\ conversation_history'[i].content = message.responses[chosen]
            /\ conversation_history'[i].responses = message.responses
            /\ DOMAIN conversation_history'[i].responses = Techniques]_vars

\* Option B was chosen on a turn whose Option B is the conditional strategy
C2_Witness ==
    /\ event.type = "vote"
    /\ event.label = "B"
    /\ LET message == conversation_history[event.turn]
       IN  /\ message.option_b_tech = "conditional"
           /\ preferred_technique[message.response_id] = "conditional"
           /\ message.content = message.responses["conditional"]
           /\ message.responses["dynamic_context"] # message.content

\* C3: up to the Save & End reset, every entry of the PreferenceLog stays as
\* it is, a vote adds exactly one entry (for a response identifier that had
\* none), no other run changes the log, and a resolved turn is never changed.
C3_AppendOnly ==
    [][event'.type # "save_and_end" =>
        /\ \A r \in DOMAIN preferred_technique :
               /\ r \in DOMAIN preferred_technique'
               /\ preferred_technique'[r] = preferred_technique[r]
        /\ IF event'.type = "vote"
           THEN /\ Cardinality(DOMAIN preferred_technique') =
                       Cardinality(DOMAIN preferred_technique) + 1
                /\ conversation_history[event'.turn].response_id
                       \notin DOMAIN preferred_technique
           ELSE preferred_technique' = preferred_technique
        /\ \A i \in DOMAIN conversation_history :
               ("response_id" \in DOMAIN conversation_history[i]
                    /\ conversation_history[i].response_id \in DOMAIN preferred_technique)
               => /\ i \in DOMAIN conversation_history'
                  /\ conversation_history'[i] = conversation_history[i]]_vars

\* a second vote has been cast in a session: the log holds two entries
C3_Witness ==
    /\ event.type = "vote"
    /\ Cardinality(DOMAIN preferred_technique) = 2

\* C4 as the specification states it: re-submitting the onboarding form
\* after Update Profile leaves an empty history, an empty PreferenceLog and a
\* fresh conversation identifier and user identifier.
C4_UpdateResets ==
    [][(event'.type = "onboarding" /\ user_profile # NoProfile)
        => /\ conversation_history' = <<>>
           /\ preferred_technique' = <<>>
           /\ conversation_id' \notin {conversation_id, user_id}
           /\ user_id' \notin {conversation_id, user_id}]_vars

\* C4: Update Profile and the re-submission of the onboarding form that
\* follows it replace the profile only; the history, the PreferenceLog, the
\* conversation identifier and the user identifier stay as they were.
C4_UpdateKeeps ==
    [][(\/ event'.type = "update_profile"
        \/ event'.type = "onboarding" /\ user_profile # NoProfile)
        => /\ conversation_history' = conversation_history
           /\ preferred_technique' = preferred_technique
           /\ conversation_id' = conversation_id
           /\ user_id' = user_id
           /\ IF event'.type = "update_profile"
              THEN user_profile' = user_profile /\ ~onboarding_complete'
              ELSE /\ user_profile'.name = event'.name
                   /\ user_profile'.preferred_name =
                         (IF event'.preferred_name = "" THEN event'.name
                          ELSE event'.preferred_name)
                   /\ onboarding_complete']_vars

\* the form was re-submitted with another preferred name in a session that
\* has a vote: the welcome turn still greets the old name
C4_Witness ==
    /\ event.type = "onboarding"
    /\ preferred_technique # <<>>
    /\ Len(conversation_history) >= 3
    /\ conversation_history[1].content # WelcomeMessage(user_profile)

\* C5 as the specification states it: a Save & End of a session without a
\* vote records no dominant strategy, in the handler and in the JSON record.
C5_NoneWithoutVotes ==
    (last_save # NoSave /\ last_save.votes = 0)
        => /\ last_save.preferred_technique = None
           /\ last_save.conversation_id \in DOMAIN json_files
                  => json_files[last_save.conversation_id].preferred_technique = None

VotesFor(technique) ==
    Cardinality({r \in DOMAIN preferred_technique : preferred_technique[r] = technique})

\* C6: with at least one vote for a known strategy, the tally counts the
\* PreferenceLog values that are one of the two strategies and no other
\* value, and the dominant strategy is the one with more votes, conditional
\* on a tie.
C6_Dominant ==
    (event.type = "tally" /\ VotesFor("conditional") + VotesFor("dynamic_context") >= 1)
        => /\ last_save.counts = [t \in Techniques |-> VotesFor(t)]
           /\ last_save.preferred_technique =
                  (IF VotesFor("conditional") >= VotesFor("dynamic_context")
                   THEN "conditional" ELSE "dynamic_context")

\* a tie of one vote each in a log that also holds an unknown value
C6_Witness ==
    /\ event.type = "tally"
    /\ Cardinality(DOMAIN preferred_technique) = 3
    /\ VotesFor("conditional") = 1
    /\ VotesFor("dynamic_context") = 1
    /\ last_save.preferred_technique = "conditional"

SavedRow == csv_file[Len(csv_file)]
RowWritten == last_save # NoSave /\ last_save.result.kind # "None"

\* C7 as the specification states it: in the summary and in the CSV row of
\* a Save & End with N votes the two counts sum to N, the two percentages
\* sum to exactly 100 when N > 0 and are both 0 when N = 0.
C7_ExactHundred ==
    RowWritten
        => /\ SumValues(last_save.summary.counts) = last_save.votes
           /\ SavedRow.total_responses = last_save.votes
           /\ IF last_save.votes > 0
              THEN /\ FloatAdd(last_save.summary.conditional_percent,
                               last_save.summary.dynamic_percent) = Float100
                   /\ FloatAdd(SavedRow.conditional_percentage,
                               SavedRow.dynamic_context_percentage) = Float100
              ELSE /\ last_save.summary.conditional_percent = FloatZero
                   /\ last_save.summary.dynamic_percent = FloatZero
                   /\ SavedRow.conditional_percentage = FloatZero
                   /\ SavedRow.dynamic_context_percentage = FloatZero

\* C7: in the summary and in the CSV row of a Save & End with N votes the two
\* counts sum to N; when N > 0 the sum of the two percentages, as the
\* program's floating-point numbers, is 100 or one of the two numbers next to
\* 100; when N = 0 both percentages are 0 and no division by zero happens.
C7_HundredRounded ==
    RowWritten
        => /\ SumValues(last_save.summary.counts) = last_save.votes
           /\ SavedRow.total_responses = last_save.votes
           /\ IF last_save.votes > 0
              THEN /\ FloatAdd(last_save.summary.conditional_percent,
                               last_save.summary.dynamic_percent)
                          \in {Float100Below, Float100, Float100Above}
                   /\ FloatAdd(SavedRow.conditional_percentage,
                               SavedRow.dynamic_context_percentage)
                          \in {Float100Below, Float100, Float100Above}
              ELSE /\ last_save.summary.conditional_percent = FloatZero
                   /\ last_save.summary.dynamic_percent = FloatZero
                   /\ SavedRow.conditional_percentage = FloatZero
                   /\ SavedRow.dynamic_context_percentage = FloatZero

\* one vote against two: the percentages shown sum to the number below 100
C7_Witness ==
    /\ RowWritten
    /\ last_save.votes = 3
    /\ last_save.summary.counts["conditional"] = 1
    /\ FloatAdd(last_save.summary.conditional_percent,
                last_save.summary.dynamic_percent) = Float100Below
    /\ FloatAdd(SavedRow.conditional_percentage,
                SavedRow.dynamic_context_percentage) = Float100Below

C9_SessionKept ==
    [][(event'.type = "save_and_end" /\ last_save'.result.kind = "None")
        => /\ conversation_history' = conversation_history
           /\ user_profile' = user_profile
           /\ preferred_technique' = preferred_technique]_vars

\* C9: a failed JSON or CSV write is reported and not retried: save_conversation
\* returns None, writes nothing after the failure, sends no email and no
\* summary is shown; the Save & End that called it resets the session all the
\* same, so the history, the profile and the PreferenceLog are gone.
C9_FailureThenReset ==
    [][(event'.type = "save_and_end"
            /\ ~(last_save'.io.json_ok /\ last_save'.io.csv_ok))
        => /\ last_save'.result.kind = "None"
           /\ last_save'.error # ""
           /\ last_save'.email = "not attempted"
           /\ ~last_save'.summary.shown
           /\ csv_file' = csv_file
           /\ IF last_save'.io.json_ok
              THEN /\ DOMAIN json_files' = DOMAIN json_files \cup {conversation_id}
                   /\ json_files'[conversation_id].detailed_preferences
                          = preferred_technique
              ELSE json_files' = json_files
           /\ conversation_history' = <<>>
           /\ user_profile' = NoProfile
           /\ preferred_technique' = <<>>]_vars

\* the JSON file of a session with a vote was written, its CSV row was not
C9_Witness ==
    /\ event.type = "save_and_end"
    /\ last_save.votes >= 1
    /\ last_save.io.json_ok /\ ~last_save.io.csv_ok
    /\ last_save.conversation_id \in DOMAIN json_files
    /\ preferred_technique = <<>>

OneFailed(message) ==
    /\ "responses" \in DOMAIN message
    /\ Cardinality({t \in Techniques : message.responses[t] = GatewayErrorText}) = 1

\* C10: when exactly one of the two gateway calls of an accepted message
\* fails, the message still gets its Pending turn with both candidates, the
\* failed one being the error text and the other one the reply; both Prefer
\* buttons of that turn can be used, and a vote resolves it like any other.
C10_OneCallFails ==
    /\ [][(gateway_calls' # gateway_calls
             /\ Cardinality({k \in 1..2 : last_calls'[k].outcome = "fail"}) = 1)
          => LET n    == Len(conversation_history')
                 turn == conversation_history'[n]
             IN  /\ n = Len(conversation_history) + 2 \/ n = Len(conversation_history) + 3
                 /\ conversation_history'[n - 1].role = "user"
                 /\ IsPending(turn, preferred_technique')
                 /\ turn.response_id = last_calls'[1].response_id
                 /\ DOMAIN turn.responses = Techniques
                 /\ current_message_processed'
                 /\ \A k \in 1..2 :
                      turn.responses[last_calls'[k].system_prompt.template] =
                        (IF last_calls'[k].outcome = "fail" THEN GatewayErrorText
                         ELSE ReplyText(last_calls'[k].system_prompt,
                                        last_calls'[k].user_message))]_vars
    /\ [](\A i \in Pending :
            (OneFailed(conversation_history[i]) /\ CanInteract /\ onboarding_complete)
                => ENABLED Vote(i, "A") /\ ENABLED Vote(i, "B"))
    /\ [][(event'.type = "vote" /\ OneFailed(conversation_history[event'.turn]))
          => LET message == conversation_history[event'.turn]
             IN  /\ message.response_id \in DOMAIN preferred_technique'
                 /\ preferred_technique'[message.response_id] \in Techniques
                 /\ conversation_history'[event'.turn].content =
                        message.responses[preferred_technique'[message.response_id]]
                 /\ ~current_message_processed']_vars

\* the user preferred the candidate that is the error text
C10_Witness ==
    /\ event.type = "vote"
    /\ LET message == conversation_history[event.turn]
       IN  /\ OneFailed(message)
           /\ message.content = GatewayErrorText
           /\ message.response_id \in DOMAIN preferred_technique

\* C11 as the specification states it: without a credential the user still
\* gets to the chat (the onboarding form can be submitted), and a turn made
\* then carries the configuration error text in both candidate slots.
C11_MessageCompletes ==
    ~api_key
        => /\ (~onboarding_complete /\ ~rerun)
                  => \A name \in Names : ENABLED SubmitOnboarding(name, "")
           /\ \A i \in DOMAIN conversation_history :
                  "responses" \in DOMAIN conversation_history[i]
                      => \A t \in Techniques :
                             conversation_history[i].responses[t] = ConfigErrorText

\* C11: without a credential every script run ends at the setup instructions:
\* the onboarding form and the chat are never drawn, so no message can be
\* submitted, the history stays empty and get_completion is never called;
\* get_completion itself would return the configuration error text without a
\* request, whatever the API would have done.
C11_NoKeyNoChat ==
    /\ [](~api_key
            => /\ conversation_history = <<>>
               /\ user_profile = NoProfile
               /\ ~onboarding_complete
               /\ gateway_calls = 0
               /\ \A name \in Names, preferred_name \in PreferredNames :
                      ~ENABLED SubmitOnboarding(name, preferred_name)
               /\ \A text \in Inputs, current_time \in Times :
                      ~ENABLED TypeMessage(text, current_time))
    /\ [][~api_key => UNCHANGED <<session, user_input, next_uuid, files, gateway>>]_vars
    /\ [](\A outcome \in ApiOutcomes, message \in Messages :
            get_completion(FALSE,
                generate_conditional_response_prompt(user_profile, ""),
                message, outcome) = ConfigErrorText)

\* a script run without the credential has ended at the setup instructions
C11_Witness ==
    /\ ~api_key
    /\ event.type = "no_api_key"
    /\ conversation_history = <<>>

\* the nudge turns of a history: assistant turns without a response
\* identifier, the welcome turn (always the first turn) apart
Nudges(history) ==
    {i \in DOMAIN history :
        /\ i > 1
        /\ history[i].role = "assistant"
        /\ "response_id" \notin DOMAIN history[i]}

NewNudges == {i \in Nudges(conversation_history') : i > Len(conversation_history)}

Identified(history) ==
    {i \in DOMAIN history :
        history[i].role = "assistant" /\ "response_id" \in DOMAIN history[i]}

\* C14: every key of the PreferenceLog is the response identifier of an
\* assistant turn of the current history, no two turns of the history have
\* the same response identifier, and the key a vote adds is the identifier
\* stored in the turn voted on, which the turn keeps.
C14_LogKeysInHistory ==
    /\ [](/\ \A r \in DOMAIN preferred_technique :
                \E i \in Identified(conversation_history) :
                    conversation_history[i].response_id = r
          /\ \A i, j \in Identified(conversation_history) :
                conversation_history[i].response_id = conversation_history[j].response_id
                    => i = j)
    /\ [][event'.type = "vote"
            => /\ DOMAIN preferred_technique' \ DOMAIN preferred_technique =
                      {conversation_history[event'.turn].response_id}
               /\ conversation_history'[event'.turn].response_id =
                      conversation_history[event'.turn].response_id]_vars

\* two turns of one history, both resolved, under their two identifiers
C14_Witness ==
    /\ Cardinality(Identified(conversation_history)) = 2
    /\ DOMAIN preferred_technique =
           {conversation_history[i].response_id : i \in Identified(conversation_history)}
    /\ Cardinality(DOMAIN preferred_technique) = 2

ExperimentTurns(history) == {i \in DOMAIN history : "responses" \in DOMAIN history[i]}
LabelTechnique(message, label) ==
    IF label = "A" THEN message.option_a_tech ELSE message.option_b_tech
LastTurn(history) == history[Len(history)]

\* a script run that accepts the message in the box and gives Option A the
\* strategy a_tech
AcceptsWith(text, current_time, a_tech) ==
    /\ TypeMessage(text, current_time) \/ (user_input = text /\ RenderPass(current_time))
    /\ gateway_calls' # gateway_calls
    /\ LastTurn(conversation_history').option_a_tech = a_tech

\* C15: in every turn made from a user message the two labels stand for the
\* two strategies, one each; the text shown under a label is what the call
\* made with that strategy's prompt returned; and whenever a run can accept
\* a message, it can do so with either strategy as Option A.
C15_LabelBijection ==
    /\ [](\A i \in ExperimentTurns(conversation_history) :
            LET message == conversation_history[i]
            IN  /\ message.option_a_tech # message.option_b_tech
                /\ {message.option_a_tech, message.option_b_tech} = Techniques
                /\ DOMAIN message.responses = Techniques)
    /\ [][gateway_calls' # gateway_calls
            => LET turn == LastTurn(conversation_history')
               IN  \A label \in Labels : \E k \in 1..2 :
                     /\ last_calls'[k].system_prompt.template = LabelTechnique(turn, label)
                     /\ OptionText(turn, label) =
                          (IF last_calls'[k].outcome = "ok"
                           THEN ReplyText(last_calls'[k].system_prompt,
                                          last_calls'[k].user_message)
                           ELSE GatewayErrorText)]_vars
    /\ [](\A text \in Messages, current_time \in ClockReadings :
            (\E a_tech \in Techniques : ENABLED AcceptsWith(text, current_time, a_tech))
                => \A a_tech \in Techniques : ENABLED AcceptsWith(text, current_time, a_tech))

\* a history whose first experiment turn has conditional as Option A and
\* whose second one has dynamic_context
C15_Witness ==
    \E i, j \in ExperimentTurns(conversation_history) :
        /\ i < j
        /\ conversation_history[i].option_a_tech = "conditional"
        /\ conversation_history[j].option_a_tech = "dynamic_context"
        /\ OptionText(conversation_history[j], "A")
               = conversation_history[j].responses["dynamic_context"]
        /\ OptionText(conversation_history[j], "A") # OptionText(conversation_history[j], "B")

UserTurnsAdded ==
    Cardinality(UserTurns(conversation_history'))
        - Cardinality(UserTurns(conversation_history))

\* C16: a script run that accepts a message makes two get_completion calls
\* and no other run makes any, so that the calls made are always twice the
\* messages accepted, failed calls included; the two calls carry the one
\* message, the conditional and the dynamic_context prompt, and the same
\* context, which ends with that message; the turn appended in that run
\* holds what the two calls returned.
C16_TwoCallsPerMessage ==
    /\ [][IF event'.type \in {"save_and_end", "no_api_key"}
          THEN gateway_calls' = gateway_calls
          ELSE /\ UserTurnsAdded \in {0, 1}
               /\ gateway_calls' = gateway_calls + 2 * UserTurnsAdded]_vars
    /\ [][(event'.type \notin {"save_and_end", "no_api_key"} /\ UserTurnsAdded = 1)
            => LET n       == Len(conversation_history')
                   message == conversation_history'[n - 1]
                   turn    == conversation_history'[n]
                   earlier == SubSeq(conversation_history', 1, n - 1)
               IN  /\ message.role = "user"
                   /\ Len(last_calls') = 2
                   /\ {last_calls'[k].system_prompt.template : k \in 1..2} = Techniques
                   /\ \A k \in 1..2 :
                        /\ last_calls'[k].user_message = message.content
                        /\ last_calls'[k].system_prompt.context
                               = get_conversation_context(earlier)
                        /\ last_calls'[k].response_id = turn.response_id
                        /\ turn.responses[last_calls'[k].system_prompt.template] =
                               (IF last_calls'[k].outcome = "ok"
                                THEN ReplyText(last_calls'[k].system_prompt, message.content)
                                ELSE GatewayErrorText)
                   /\ IsPending(turn, preferred_technique')]_vars
    /\ [](gateway_calls >= 2 * Cardinality(UserTurns(conversation_history)))

\* the second message of a session was accepted and one of its calls failed:
\* four calls were made for the two messages
C16_Witness ==
    /\ Cardinality(UserTurns(conversation_history)) = 2
    /\ gateway_calls = 4
    /\ Len(last_calls) = 2
    /\ \E k \in 1..2 : last_calls[k].outcome = "fail"
    /\ IsPending(LastTurn(conversation_history), preferred_technique)

\* C17: in every state the input gate is closed exactly when the history
\* holds a Pending turn, and the turns a newly accepted message finds before
\* it, its context among them, hold no Pending turn and no empty content.
C17_GateIffPending ==
    /\ [](current_message_processed <=> Pending # {})
    /\ [][(event'.type \notin {"save_and_end", "no_api_key"} /\ UserTurnsAdded = 1)
            => LET earlier == SubSeq(conversation_history', 1,
                                     Len(conversation_history') - 1)
               IN  /\ ~current_message_processed
                   /\ PendingTurns(earlier, preferred_technique') = {}
                   /\ \A i \in DOMAIN earlier : earlier[i].content # ""]_vars

\* a nudge was appended behind a Pending turn: the gate is still closed
C17_Witness ==
    /\ event.type \in {"input", "render"}
    /\ event.idle = "nudge"
    /\ Pending # {}
    /\ Nudges(conversation_history) # {}
    /\ Len(conversation_history) \notin Pending
    /\ current_message_processed

\* C18: at every Save & End the turns save_conversation counts are as many
\* as the PreferenceLog has entries, its count of each strategy is the
\* caller's count (a strategy it never met counting as 0), and so the
\* percentages and the total it writes are those of the votes from which the
\* caller took the dominant strategy written next to them.
C18_StatsAgree ==
    [][event'.type = "save_and_end" =>
        LET log    == preferred_technique
            inner  == preferred_techniques_count(conversation_history, log)
            total  == Cardinality(RatedTurns(conversation_history, log))
            caller == technique_counts(log)
            doc    == json_files'[conversation_id]
            row    == csv_file'[Len(csv_file')]
        IN  /\ total = Cardinality(DOMAIN log)
            /\ total = caller["conditional"] + caller["dynamic_context"]
            /\ \A t \in Techniques : DictGet(inner, t, 0) = caller[t]
            /\ DOMAIN inner \subseteq Techniques
            /\ last_save'.io.json_ok
                 => /\ doc.total_responses = Cardinality(DOMAIN log)
                    /\ doc.detailed_preferences = log
                    /\ doc.preferred_technique = last_save'.preferred_technique
                    /\ \A t \in Techniques :
                         DictGet(doc.technique_percentages, t, FloatZero)
                             = SummaryPercent(caller[t], Cardinality(DOMAIN log))
            /\ last_save'.io.csv_ok
                 => /\ row.total_responses = Cardinality(DOMAIN log)
                    /\ row.preferred_technique = last_save'.preferred_technique
                    /\ row.conditional_percentage
                           = SummaryPercent(caller["conditional"], total)
                    /\ row.dynamic_context_percentage
                           = SummaryPercent(caller["dynamic_context"], total)]_vars

\* a session with two votes for dynamic_context, one of them cast as Option A
\* and one as Option B, was saved
C18_Witness ==
    /\ event.type = "save_and_end"
    /\ last_save.votes = 2
    /\ last_save.io.csv_ok
    /\ last_save.preferred_technique = "dynamic_context"
    /\ json_files[last_save.conversation_id].total_responses = 2
    /\ DOMAIN json_files[last_save.conversation_id].technique_percentages
           = {"dynamic_context"}
    /\ csv_file[Len(csv_file)].conditional_percentage = FloatZero
    /\ csv_file[Len(csv_file)].dynamic_context_percentage = Float100

====
